---- MODULE Spec2Model ----
(***************************************************************************)
(* hashnode-cli: the stage -> plan -> apply reconciliation engine.         *)
(*                                                                         *)
(* The model keeps the files the commands share (working tree, snapshot    *)
(* store, stage file, ledger file hashnode.sum, lock file) and the remote  *)
(* publication, and runs the commands as processes that interleave at the  *)
(* file-system operations of the Go code:                                  *)
(*   - `hn apply`     : applyCmd.RunE, one step per phase / per plan item  *)
(*   - `hn stage add` : StageAdd, snapshot write then stage write          *)
(*   - `hn delete`, `hn unstage`, `hn stage <dir>`, `hn gc`                *)
(*   - the user editing or removing Markdown files                         *)
(***************************************************************************)
EXTENDS Integers, Sequences, FiniteSets, TLC

(***************************************************************************)
(* Bounds of the model.                                                    *)
(***************************************************************************)
MaxStageOps == 2

MaxEdits == 1

(***************************************************************************)
(* Program constants.                                                      *)
(***************************************************************************)
MinTitleLen == 6

StateDir == ".hashnode"

\* the publication id recorded in .hashnode/blog.yml
BlogPub == "pub-1"

(***************************************************************************)
(* Small sets the inputs are drawn from.                                   *)
(***************************************************************************)
\* article paths of the working tree, in normalized (repo-relative) form
Paths == {"posts/a.md", "posts/b.md"}

\* a path that filepath.Rel places outside the project root
OutsidePath == "../x.md"

\* file contents: front matter + body
Contents == {"c1", "c2", "c3"}

\* "no such file" / os.IsNotExist
NoFile == "<absent>"

\* the pids of the `hn apply` processes; each runs the command once, and
\* (the processes being alike) pid 2 is started after pid 1
Appliers == {1, 2}

\* lock file absent
NoLock == 0

(***************************************************************************)
(* Pure helpers.                                                           *)
(***************************************************************************)
\* front matter `title:` of each content; c3 has a title below the minimum
FrontmatterTitle(c) ==
    CASE c = "c1" -> "Hello World Essay"
      [] c = "c2" -> "Revised Essay"
      [] c = "c3" -> "Tiny"
      [] OTHER    -> ""

\* strings.TrimSpace(fm.Title); "" when the file is absent or has no title
ParseTitleFromFrontmatter(c) == IF c = NoFile THEN "" ELSE FrontmatterTitle(c)

\* hex(SHA-256(content)): injective on contents
ChecksumFromContent(c) == "sha-" \o c

\* fmt.Sprintf("%s.md", checksum)
SnapshotName(checksum) == checksum \o ".md"

SnapshotNames == {SnapshotName(ChecksumFromContent(c)) : c \in Contents}

\* path of a snapshot file, relative to the project root
SnapshotPath(name) == StateDir \o "/snapshots/" \o name

StatePaths == {SnapshotPath(n) : n \in SnapshotNames}

\* the state-directory file `hn stage add` is tried on
ProtectedPath == SnapshotPath(SnapshotName(ChecksumFromContent("c1")))

\* every key a stage item can get, in the stable order plans are emitted in
KeyOrder ==
    <<"posts/a.md", "posts/b.md",
      SnapshotPath(SnapshotName(ChecksumFromContent("c1"))),
      SnapshotPath(SnapshotName(ChecksumFromContent("c2"))),
      SnapshotPath(SnapshotName(ChecksumFromContent("c3")))>>

AllKeys == {KeyOrder[i] : i \in 1..Len(KeyOrder)}

\* true iff the normalized path lies under {project-root}/.hashnode
UnderStateDir(p) == p \in StatePaths

\* inRepo: filepath.Rel(root, abs) does not start with ".."
inRepo(p) == p # OutsidePath

VARIABLES
    files,      \* working tree: path -> content or NoFile
    snapshots,  \* snapshot store: filename -> content, for the files on disk
    stageFile,  \* hashnode.stage: key -> staged item
    sumFile,    \* hashnode.sum: [pub, articles: path -> row]
    lockFile,   \* hashnode.lock: owner pid, or NoLock when absent
    remote,     \* post ids that exist on the remote publication
    nextId,     \* next post id the remote hands out
    ap,         \* per apply process: its position and local variables
    sg,         \* the stage-add process: position and local variables
    stageOps,   \* stage / gc commands started
    edits       \* user edits of the working tree

vars == <<files, snapshots, stageFile, sumFile, lockFile, remote, nextId,
          ap, sg, stageOps, edits>>

(***************************************************************************)
(* File-system reads.                                                      *)
(***************************************************************************)
\* os.ReadFile of a project path: a working-tree file or a snapshot file
ReadFile(p) ==
    IF p \in Paths THEN files[p]
    ELSE IF \E n \in DOMAIN snapshots : SnapshotPath(n) = p
         THEN snapshots[CHOOSE n \in DOMAIN snapshots : SnapshotPath(n) = p]
         ELSE NoFile

\* SnapshotStore.Get: content, or NoFile when the read fails
SnapshotGet(name) == IF name \in DOMAIN snapshots THEN snapshots[name] ELSE NoFile

(***************************************************************************)
(* Stage items and the stage file.                                         *)
(***************************************************************************)
OpModify == "MODIFY"

OpDelete == "DELETE"

\* StagedItem written by StageAdd
ModifyItem(checksum, snapshot) ==
    [op |-> OpModify, checksum |-> checksum, snapshot |-> snapshot]

\* StagedItem written by StageRemove: no checksum, no snapshot
DeleteItem == [op |-> OpDelete, checksum |-> "", snapshot |-> ""]

\* st.Items[key] = item
PutItem(st, key, item) ==
    [k \in DOMAIN st \cup {key} |-> IF k = key THEN item ELSE st[k]]

\* delete(st.Items, key)
DropItem(st, key) == [k \in DOMAIN st \ {key} |-> st[k]]

\* Stage.Clear
EmptyStage == [k \in {} |-> DeleteItem]

\* saveSnapshot: an existing file is kept, otherwise the content is written
saveSnapshotStripped(snaps, name, content) ==
    IF name \in DOMAIN snaps THEN snaps
    ELSE [n \in DOMAIN snaps \cup {name} |->
             IF n = name THEN "body-of-" \o content ELSE snaps[n]]

saveSnapshot(snaps, name, content) ==
    IF name \in DOMAIN snaps THEN snaps
    ELSE [n \in DOMAIN snaps \cup {name} |-> IF n = name THEN content ELSE snaps[n]]

\* the check StageAdd makes on its path before reading it
StageAddRejects(p) == ~inRepo(p)

SgIdle == [pc |-> "idle", path |-> "", checksum |-> "", snapshot |-> ""]

(***************************************************************************)
(* hn stage add <file>: StageAdd, steps 1-3 (validate, read, snapshot).    *)
(***************************************************************************)
StageAddSnapshot(p) ==
    /\ sg.pc = "idle"
    /\ stageOps < MaxStageOps
    /\ stageOps' = stageOps + 1
    /\ LET content  == ReadFile(p)
           checksum == ChecksumFromContent(content)
           name     == SnapshotName(checksum)
       IN IF StageAddRejects(p) \/ content = NoFile
          THEN \* "path is outside repository" / "failed to read file"
               UNCHANGED <<snapshots, sg>>
          ELSE /\ snapshots' = saveSnapshot(snapshots, name, content)
               /\ sg' = [pc |-> "stage", path |-> p,
                         checksum |-> checksum, snapshot |-> name]
    /\ UNCHANGED <<files, stageFile, sumFile, lockFile, remote, nextId, ap, edits>>

(***************************************************************************)
(* StageAdd, step 4: LoadStage, set the item, SaveStage.                   *)
(***************************************************************************)
StageAddStage ==
    /\ sg.pc = "stage"
    /\ stageFile' = PutItem(stageFile, sg.path, ModifyItem(sg.checksum, sg.snapshot))
    /\ sg' = SgIdle
    /\ UNCHANGED <<files, snapshots, sumFile, lockFile, remote, nextId, ap, stageOps, edits>>

(***************************************************************************)
(* hn delete <file>: StageRemove.  The file need not exist.                *)
(***************************************************************************)
StageRemove(p) ==
    /\ sg.pc = "idle"
    /\ stageOps < MaxStageOps
    /\ stageOps' = stageOps + 1
    /\ stageFile' = PutItem(stageFile, p, DeleteItem)
    /\ UNCHANGED <<files, snapshots, sumFile, lockFile, remote, nextId, ap, sg, edits>>

(***************************************************************************)
(* state.Unstage: a missing entry is a no-op.                              *)
(***************************************************************************)
Unstage(p) ==
    /\ sg.pc = "idle"
    /\ stageOps < MaxStageOps
    /\ stageOps' = stageOps + 1
    /\ stageFile' = IF p \in DOMAIN stageFile THEN DropItem(stageFile, p) ELSE stageFile
    /\ UNCHANGED <<files, snapshots, sumFile, lockFile, remote, nextId, ap, sg, edits>>

(***************************************************************************)
(* hn stage <dir> on the project root: StageDir walks every file and calls *)
(* StageAdd on those with a Markdown extension.                            *)
(***************************************************************************)
\* the Markdown files filepath.WalkDir(root) visits
WalkedMarkdown ==
    {p \in Paths : files[p] # NoFile} \cup {SnapshotPath(n) : n \in DOMAIN snapshots}

\* the files StageDir hands to StageAdd and StageAdd accepts
StageDirStaged == {p \in WalkedMarkdown : ~StageAddRejects(p)}

StageDir ==
    /\ sg.pc = "idle"
    /\ stageOps < MaxStageOps
    /\ stageOps' = stageOps + 1
    /\ LET staged == StageDirStaged
           item(p) == LET cs == ChecksumFromContent(ReadFile(p))
                      IN ModifyItem(cs, SnapshotName(cs))
       IN /\ stageFile' = [k \in DOMAIN stageFile \cup staged |->
                              IF k \in staged THEN item(k) ELSE stageFile[k]]
          /\ snapshots' = [n \in DOMAIN snapshots
                                 \cup {SnapshotName(ChecksumFromContent(ReadFile(p))) : p \in staged} |->
                              IF n \in DOMAIN snapshots THEN snapshots[n]
                              ELSE CHOOSE c \in Contents : SnapshotName(ChecksumFromContent(c)) = n]
    /\ UNCHANGED <<files, sumFile, lockFile, remote, nextId, ap, sg, edits>>

(***************************************************************************)
(* Snapshot garbage collection.                                            *)
(***************************************************************************)
\* buildReferenceSet: the snapshots named by stage items.  LoadLock reads the
\* lock file as YAML with a `staged` map; the pid/created lines AcquireRepoLock
\* writes do not decode (the error is ignored) and an absent file is empty,
\* so the lock contributes no reference.
buildReferenceSet(st) == {st[k].snapshot : k \in {j \in DOMAIN st : st[j].snapshot # ""}}

\* SnapshotStore.GC(false): the snapshot store it leaves
GC(snaps, st) ==
    LET all        == DOMAIN snaps
        referenced == buildReferenceSet(st)
    IN IF all = {} THEN snaps
       ELSE IF Cardinality(referenced) >= Cardinality(all) THEN snaps
       ELSE [n \in {m \in all : m \in referenced} |-> snaps[n]]

(***************************************************************************)
(* hn gc                                                                   *)
(***************************************************************************)
GcCmd ==
    /\ stageOps < MaxStageOps
    /\ stageOps' = stageOps + 1
    /\ snapshots' = GC(snapshots, stageFile)
    /\ UNCHANGED <<files, stageFile, sumFile, lockFile, remote, nextId, ap, sg, edits>>

(***************************************************************************)
(* The user edits, creates or removes a Markdown file.                     *)
(***************************************************************************)
EditFile(p, c) ==
    /\ edits < MaxEdits
    /\ c # files[p]
    /\ edits' = edits + 1
    /\ files' = [files EXCEPT ![p] = c]
    /\ UNCHANGED <<snapshots, stageFile, sumFile, lockFile, remote, nextId, ap, sg, stageOps>>

(***************************************************************************)
(* Ledger (hashnode.sum).                                                  *)
(***************************************************************************)
NoArticles == [k \in {} |-> [postID |-> "", checksum |-> "", title |-> ""]]

\* NewSumFromBlog: an empty ledger bound to the configured publication
NewSumFromBlog == [pub |-> BlogPub, articles |-> NoArticles]

\* Sum.ValidateAgainstBlog for a blog.yml whose publication_id is `blog`
\* (NoFile: there is no blog.yml): TRUE when it returns nil
ValidateAgainstNever(blog, sum) == FALSE

ValidateAgainst(blog, sum) ==
    IF blog = NoFile THEN TRUE
    ELSE ~(blog # "" /\ blog # sum.pub)

\* Sum.ValidateAgainstBlog in a project configured for BlogPub
ValidateAgainstBlog(sum) == ValidateAgainst(BlogPub, sum)

\* Sum.SetArticleWithTitle
SetArticleWithTitle(arts, path, postID, checksum, title) ==
    [k \in DOMAIN arts \cup {path} |->
        IF k = path THEN [postID |-> postID, checksum |-> checksum, title |-> title]
        ELSE arts[k]]

\* Sum.RemoveArticle
RemoveArticle(arts, path) == [k \in DOMAIN arts \ {path} |-> arts[k]]

\* the id the remote returns for the n-th published post
PostId(n) == "post-" \o ToString(n)

(***************************************************************************)
(* Diff engine: GeneratePlan(articles, stage).                             *)
(***************************************************************************)
ActionCreate == "CREATE"

ActionUpdate == "UPDATE"

ActionSkip == "SKIP"

ActionDelete == "DELETE"

PlanEntry(type, path, oldPath, remoteID) ==
    [type |-> type, path |-> path, oldPath |-> oldPath, remoteID |-> remoteID]

\* the checksum the diff uses for a staged modify item
CurrentChecksum(item, path) ==
    IF item.checksum # "" THEN item.checksum
    ELSE IF item.snapshot # "" /\ SnapshotGet(item.snapshot) # NoFile
         THEN ChecksumFromContent(SnapshotGet(item.snapshot))
    ELSE IF ReadFile(path) # NoFile THEN ChecksumFromContent(ReadFile(path))
    ELSE ""

\* one element of `articles []diff.RegistryEntry`
RegistryEntry(path, row) ==
    [path |-> path, postID |-> row.postID, checksum |-> row.checksum]

\* `for path, a := range s.Articles { articles = append(articles, ...) }`:
\* the slices the loop can build; the iteration order of a Go map is
\* unspecified, so every order of the ledger rows is possible
RegistryOrders(arts) ==
    LET D == DOMAIN arts
        n == Cardinality(D)
    IN {[i \in 1..n |-> RegistryEntry(f[i], arts[f[i]])] :
            f \in {g \in [1..n -> D] : \A i, j \in 1..n : i # j => g[i] # g[j]}}

\* the byPath index: normalized path -> ledger article
byPath(articles) ==
    [p \in {articles[i].path : i \in DOMAIN articles} |->
        articles[CHOOSE i \in DOMAIN articles : articles[i].path = p]]

\* the byChecksum index: checksum -> path, over the published articles only;
\* a later article with the same checksum overwrites an earlier one ("" when
\* the index has no entry for cs)
byChecksum(articles, cs) ==
    LET hits == {i \in DOMAIN articles :
                    articles[i].postID # "" /\ articles[i].checksum = cs}
    IN IF hits = {} THEN ""
       ELSE articles[CHOOSE i \in hits : \A j \in hits : j <= i].path

\* the action for a staged delete
DeletedEntryAction(postID) == IF postID # "" THEN ActionDelete ELSE ActionSkip

\* the action for a staged modify of a path the ledger knows
ExistingEntryUpdatesAlways(postID, ledgerChecksum, cur) ==
    IF postID = "" THEN ActionCreate ELSE ActionUpdate

ExistingEntryAction(postID, ledgerChecksum, cur) ==
    IF postID = "" THEN ActionCreate
    ELSE IF cur # ledgerChecksum THEN ActionUpdate
    ELSE ActionSkip

\* the rename heuristic for a new path whose checksum the index maps to old
RenameDetected(old, st) ==
    /\ old # ""
    /\ \/ ReadFile(old) = NoFile
       \/ (old \in DOMAIN st /\ st[old].op = OpDelete)

\* the plan item of one stage entry
PlanItemFor(articles, st, path) ==
    LET item == st[path]
        arts == byPath(articles)
        cur  == CurrentChecksum(item, path)
    IN IF item.op = OpDelete
       THEN IF path \in DOMAIN arts
                  /\ DeletedEntryAction(arts[path].postID) = ActionDelete
            THEN PlanEntry(ActionDelete, path, "", arts[path].postID)
            ELSE PlanEntry(ActionSkip, path, "", "")
       ELSE IF cur = "" THEN PlanEntry(ActionSkip, path, "", "")
       ELSE IF path \notin DOMAIN arts
            THEN LET old == byChecksum(articles, cur)
                 IN IF RenameDetected(old, st)
                    THEN PlanEntry(ActionUpdate, path, old, arts[old].postID)
                    ELSE PlanEntry(ActionCreate, path, "", "")
       ELSE LET type == ExistingEntryAction(arts[path].postID,
                                            arts[path].checksum, cur)
            IN PlanEntry(type, path, "",
                         IF type = ActionCreate THEN "" ELSE arts[path].postID)

\* the stage keys in emission order
StageKeys(st) == SelectSeq(KeyOrder, LAMBDA k : k \in DOMAIN st)

GeneratePlan(articles, st) ==
    LET keys == StageKeys(st)
    IN [i \in 1..Len(keys) |-> PlanItemFor(articles, st, keys[i])]

(***************************************************************************)
(* Helpers of the applier.                                                 *)
(***************************************************************************)
\* IsStagingItemStale that never reports a missing file
IsStagingItemStaleMissingFresh(item, path) ==
    IF ReadFile(path) = NoFile THEN FALSE
    ELSE ChecksumFromContent(ReadFile(path)) # item.checksum

\* IsStagingItemStale
IsStagingItemStale(item, path) ==
    IF ReadFile(path) = NoFile THEN item.checksum # ""
    ELSE ChecksumFromContent(ReadFile(path)) # item.checksum

\* title resolution that looks at the staged snapshot before the ledger cache
ResolveTitleSnapshotFirst(path, sum, st) ==
    IF path \in DOMAIN st /\ st[path].snapshot # ""
       /\ ParseTitleFromFrontmatter(SnapshotGet(st[path].snapshot)) # ""
    THEN ParseTitleFromFrontmatter(SnapshotGet(st[path].snapshot))
    ELSE IF path \in DOMAIN sum.articles /\ sum.articles[path].title # ""
         THEN sum.articles[path].title
    ELSE ParseTitleFromFrontmatter(ReadFile(path))

\* ResolveTitleForPath: ledger cache, then staged snapshot, then disk
ResolveTitleForPath(path, sum, st) ==
    IF path \in DOMAIN sum.articles /\ sum.articles[path].title # ""
    THEN sum.articles[path].title
    ELSE IF path \in DOMAIN st /\ st[path].snapshot # ""
            /\ ParseTitleFromFrontmatter(SnapshotGet(st[path].snapshot)) # ""
         THEN ParseTitleFromFrontmatter(SnapshotGet(st[path].snapshot))
    ELSE ParseTitleFromFrontmatter(ReadFile(path))

\* the bytes apply sends for a path: the staged snapshot, otherwise the disk
LoadContent(st, path) ==
    IF path \in DOMAIN st /\ st[path].snapshot # ""
    THEN SnapshotGet(st[path].snapshot)
    ELSE ReadFile(path)

\* the checksum apply stores: the staged one, otherwise that of the bytes sent
StoredChecksumOfDisk(st, path, content) == ChecksumFromContent(ReadFile(path))

StoredChecksum(st, path, content) ==
    IF path \in DOMAIN st /\ st[path].checksum # "" THEN st[path].checksum
    ELSE ChecksumFromContent(content)

\* the creates of the plan whose resolved title is missing or too short
BadTitles(plan, sum, st) ==
    {i \in 1..Len(plan) :
        /\ plan[i].type = ActionCreate
        /\ Len(ResolveTitleForPath(plan[i].path, sum, st)) < MinTitleLen}

ApIdle ==
    [pc |-> "idle", yes |-> FALSE, dry |-> FALSE, held |-> FALSE,
     st |-> EmptyStage, s |-> NewSumFromBlog, plan |-> <<>>, idx |-> 0,
     queue |-> <<>>, succeeded |-> 0, result |-> "", calls |-> 0, sum0 |-> NewSumFromBlog,
     sumWrites |-> 0, stageWrites |-> 0, sent |-> <<>>, created |-> {}]

(***************************************************************************)
(* Project lock (AcquireRepoLock).                                         *)
(***************************************************************************)
\* os.OpenFile(O_CREATE|O_EXCL) fails with os.IsExist iff the file is there;
\* the owner pid in the file is never looked at
LockExistsIgnored(lock) == FALSE

LockExists(lock) == lock # NoLock

\* the deferred release(): os.Remove(lockPath), whatever the run returns
ReleaseOnSuccessOnly(lock, res) == IF res = "ok" THEN NoLock ELSE lock

ReleaseAtReturn(lock, res) == NoLock

\* what one accepted remote call carried: the mutation, the article path, the
\* post id and the checksum of the Markdown that was sent
RemoteCall(kind, path, id, checksum) ==
    [kind |-> kind, path |-> path, id |-> id, checksum |-> checksum]

\* the paths for which the calls of a run published a new post
PublishedPaths(sent) == {sent[i].path : i \in {j \in 1..Len(sent) : sent[j].kind = "publish"}}

\* `return err` / `return nil` of a run that holds the lock
ApplyReturn(a, loc, res) ==
    /\ ap' = [ap EXCEPT ![a] = [loc EXCEPT !.pc = "done", !.result = res,
                                           !.st = EmptyStage, !.s = NewSumFromBlog,
                                           !.plan = <<>>, !.idx = 0,
                                           !.sum0 = NewSumFromBlog,
                                           !.succeeded = Len(loc.queue),
                                           !.queue = <<>>,
                                           !.created = PublishedPaths(loc.sent),
                                           !.sent = <<>>]]
    /\ lockFile' = ReleaseAtReturn(lockFile, res)

(***************************************************************************)
(* hn apply [--yes] [--dry-run]: acquire the lock.                         *)
(***************************************************************************)
ApplyStart(a, yes, dry) ==
    /\ ap[a].pc = "idle"
    /\ \A b \in Appliers : b < a => ap[b].pc # "idle"
    /\ IF LockExists(lockFile)
       THEN \* "lock file ... already exists": nothing else is touched
            /\ ap' = [ap EXCEPT ![a] = [ApIdle EXCEPT !.pc = "done", !.yes = yes,
                                                     !.dry = dry,
                                                     !.result = "already-locked"]]
            /\ UNCHANGED lockFile
       ELSE /\ lockFile' = a
            /\ ap' = [ap EXCEPT ![a] = [ApIdle EXCEPT !.pc = "plan", !.yes = yes,
                                                     !.dry = dry, !.held = TRUE,
                                                     !.sum0 = sumFile]]
    /\ UNCHANGED <<files, snapshots, stageFile, sumFile, remote, nextId, sg,
                   stageOps, edits>>

(***************************************************************************)
(* From the lock to the first plan item: config.Load and the token check,  *)
(* LoadStage (an empty stage ends the run), LoadSum + ValidateAgainstBlog  *)
(* (else NewSumFromBlog), GeneratePlan, the dry-run exit, and the title    *)
(* validation of the planned creates.  All of it only reads.               *)
(***************************************************************************)
\* `if len(st.Items) == 0`
StageIsEmptyNever(st) == FALSE

StageIsEmpty(st) == DOMAIN st = {}

\* `if applyDryRun`
DryRunIgnored(loc) == FALSE

DryRun(loc) == loc.dry

ApplyPlan(a, cfgOK, readOK) ==
    /\ ap[a].pc = "plan"
    /\ \E articles \in RegistryOrders(
                 IF ValidateAgainstBlog(sumFile) THEN sumFile.articles ELSE NoArticles) :
       LET st   == stageFile
           s    == IF ValidateAgainstBlog(sumFile) THEN sumFile ELSE NewSumFromBlog
           plan == GeneratePlan(articles, st)
       IN IF ~cfgOK THEN ApplyReturn(a, ap[a], "config-error")
          ELSE IF ~readOK THEN ApplyReturn(a, ap[a], "parse-error")
          ELSE IF StageIsEmpty(st) THEN ApplyReturn(a, ap[a], "nothing-to-apply")
          ELSE IF DryRun(ap[a])
               THEN ApplyReturn(a, ap[a], "dry-run")
          ELSE IF BadTitles(plan, s, st) # {}
               THEN ApplyReturn(a, ap[a], "invalid-input")
          ELSE /\ ap' = [ap EXCEPT ![a].pc = "exec", ![a].st = st, ![a].s = s,
                                   ![a].plan = plan, ![a].idx = 1]
               /\ UNCHANGED lockFile
    /\ UNCHANGED <<files, snapshots, stageFile, sumFile, remote, nextId, sg,
                   stageOps, edits>>

(***************************************************************************)
(* Executing one plan item (the body of `for _, it := range plan`).        *)
(***************************************************************************)
LedgerUpdate(path, postID, checksum, title, isDelete) ==
    [path |-> path, postID |-> postID, checksum |-> checksum, title |-> title,
     isDelete |-> isDelete]

NoUpdate == LedgerUpdate("", "", "", "", FALSE)

Step(kind, err, id, upd) == [kind |-> kind, err |-> err, id |-> id, upd |-> upd]

\* case diff.ActionDelete
DeleteStepNothing(loc, it) == Step("noop", "", "", NoUpdate)

DeleteStep(loc, it) ==
    LET arts     == loc.s.articles
        remoteID == IF it.remoteID # "" THEN it.remoteID
                    ELSE IF it.path \in DOMAIN arts THEN arts[it.path].postID
                    ELSE ""
    IN IF remoteID = "" THEN Step("noop", "", "", NoUpdate)
       ELSE IF ~loc.yes THEN Step("error", "confirmation-required", "", NoUpdate)
       ELSE Step("remove", "", remoteID, LedgerUpdate(it.path, "", "", "", TRUE))

\* `entry, ok = regByPath[np]`, and when that misses and the item has an old
\* path, `regByPath[NormalizePath(it.OldPath)]`: the path whose row is used,
\* "" when neither is in the ledger
RegistryPathNewOnly(arts, np, oldPath) == IF np \in DOMAIN arts THEN np ELSE ""

RegistryPath(arts, np, oldPath) ==
    IF np \in DOMAIN arts THEN np
    ELSE IF oldPath # "" /\ oldPath \in DOMAIN arts THEN oldPath
    ELSE ""

\* case diff.ActionUpdate
UpdateStep(loc, it) ==
    LET arts    == loc.s.articles
        np      == it.path
        found   == RegistryPath(arts, np, it.oldPath) # ""
        entry   == arts[RegistryPath(arts, np, it.oldPath)]
        content == LoadContent(loc.st, np)
        title   == ResolveTitleForPath(np, loc.s, loc.st)
    IN IF ~found THEN Step("noop", "", "", NoUpdate)
       ELSE IF np \in DOMAIN loc.st /\ IsStagingItemStale(loc.st[np], np) /\ ~loc.yes
            THEN Step("error", "stale-staging", "", NoUpdate)
       ELSE IF content = NoFile THEN Step("error", "io-error", "", NoUpdate)
       ELSE IF title = "" THEN Step("error", "invalid-input", "", NoUpdate)
       ELSE IF loc.s.pub = "" THEN Step("error", "config-error", "", NoUpdate)
       ELSE Step("update", "", entry.postID,
                 LedgerUpdate(np, entry.postID, StoredChecksum(loc.st, np, content),
                              title, FALSE))

\* case diff.ActionCreate; the post id is the one the remote will return
CreateStep(loc, it, newID) ==
    LET np      == it.path
        content == LoadContent(loc.st, np)
        title   == ResolveTitleForPath(np, loc.s, loc.st)
    IN IF content = NoFile THEN Step("error", "io-error", "", NoUpdate)
       ELSE IF title = "" THEN Step("error", "invalid-input", "", NoUpdate)
       ELSE Step("publish", "", newID,
                 LedgerUpdate(np, newID, StoredChecksum(loc.st, np, content),
                              title, FALSE))

ItemStep(loc, it, newID) ==
    CASE it.type = ActionSkip   -> Step("noop", "", "", NoUpdate)
      [] it.type = ActionDelete -> DeleteStep(loc, it)
      [] it.type = ActionUpdate -> UpdateStep(loc, it)
      [] it.type = ActionCreate -> CreateStep(loc, it, newID)

\* `return fmt.Errorf(...)` inside the loop: nothing is saved
OnItemErrorFlush(a, loc, err) ==
    /\ ApplyReturn(a, [loc EXCEPT !.sumWrites = loc.sumWrites + 1], err)
    /\ sumFile' = [loc.s EXCEPT !.articles =
                      IF Len(loc.queue) = 0 THEN loc.s.articles
                      ELSE IF loc.queue[1].isDelete
                           THEN RemoveArticle(loc.s.articles, loc.queue[1].path)
                           ELSE SetArticleWithTitle(loc.s.articles, loc.queue[1].path,
                                    loc.queue[1].postID, loc.queue[1].checksum,
                                    loc.queue[1].title)]
    /\ UNCHANGED <<stageFile, snapshots>>

OnItemError(a, loc, err) ==
    /\ ApplyReturn(a, loc, err)
    /\ UNCHANGED <<sumFile, stageFile, snapshots>>

ApplyExecItem(a, remoteOK) ==
    /\ ap[a].pc = "exec"
    /\ ap[a].idx <= Len(ap[a].plan)
    /\ LET loc == ap[a]
           r   == ItemStep(loc, loc.plan[loc.idx], PostId(nextId))
       IN CASE r.kind = "noop" ->
                 /\ ap' = [ap EXCEPT ![a].idx = loc.idx + 1]
                 /\ UNCHANGED <<lockFile, remote, nextId, sumFile, stageFile, snapshots>>
            [] r.kind = "error" ->
                 /\ OnItemError(a, loc, r.err)
                 /\ UNCHANGED <<remote, nextId>>
            [] r.kind \in {"remove", "update", "publish"} /\ ~remoteOK ->
                 /\ OnItemError(a, [loc EXCEPT !.calls = loc.calls + 1], "remote-error")
                 /\ UNCHANGED <<remote, nextId>>
            [] r.kind \in {"remove", "update", "publish"} /\ remoteOK ->
                 /\ ap' = [ap EXCEPT ![a].idx = loc.idx + 1,
                                     ![a].calls = loc.calls + 1,
                                     ![a].queue = Append(loc.queue, r.upd),
                                     ![a].sent = Append(loc.sent,
                                         RemoteCall(r.kind, loc.plan[loc.idx].path, r.id,
                                            IF r.kind = "remove" THEN ""
                                            ELSE ChecksumFromContent(
                                                    LoadContent(loc.st, loc.plan[loc.idx].path))))]
                 /\ remote' = CASE r.kind = "remove"  -> remote \ {r.id}
                                [] r.kind = "update"  -> remote
                                [] r.kind = "publish" -> remote \cup {r.id}
                 /\ nextId' = IF r.kind = "publish" THEN nextId + 1 ELSE nextId
                 /\ UNCHANGED <<lockFile, sumFile, stageFile, snapshots>>
    /\ UNCHANGED <<files, sg, stageOps, edits>>

(***************************************************************************)
(* Ledger commit: all queued updates, then one SaveSum.                    *)
(***************************************************************************)
RECURSIVE ApplyUpdates(_, _)
ApplyUpdates(arts, queue) ==
    IF queue = <<>> THEN arts
    ELSE LET u == Head(queue)
         IN ApplyUpdates(IF u.isDelete THEN RemoveArticle(arts, u.path)
                         ELSE SetArticleWithTitle(arts, u.path, u.postID, u.checksum, u.title),
                         Tail(queue))

\* the in-memory ledger that SaveSum writes
CommitFirstOnly(sum, queue) ==
    [sum EXCEPT !.articles = IF queue = <<>> THEN sum.articles
                             ELSE ApplyUpdates(sum.articles, <<Head(queue)>>)]

CommitLedger(sum, queue) == [sum EXCEPT !.articles = ApplyUpdates(sum.articles, queue)]

\* `return fmt.Errorf("failed to save hashnode.sum: ...")`: the stage is not
\* touched
OnSaveSumErrorClearsStage(a) ==
    /\ ApplyReturn(a, ap[a], "io-error")
    /\ stageFile' = EmptyStage
    /\ UNCHANGED sumFile

OnSaveSumError(a) ==
    /\ ApplyReturn(a, ap[a], "io-error")
    /\ UNCHANGED <<sumFile, stageFile>>

ApplyCommit(a, writeOK) ==
    /\ ap[a].pc = "exec"
    /\ ap[a].idx > Len(ap[a].plan)
    /\ LET s2 == CommitLedger(ap[a].s, ap[a].queue)
       IN IF writeOK
          THEN /\ sumFile' = s2
               /\ ap' = [ap EXCEPT ![a].pc = "clear", ![a].s = s2,
                                   ![a].sumWrites = ap[a].sumWrites + 1]
               /\ UNCHANGED <<lockFile, stageFile>>
          ELSE OnSaveSumError(a)
    /\ UNCHANGED <<files, snapshots, remote, nextId, sg, stageOps, edits>>

(***************************************************************************)
(* st.Clear(); SaveStage(st)                                               *)
(***************************************************************************)
ApplyClearStage(a, writeOK) ==
    /\ ap[a].pc = "clear"
    /\ IF writeOK
       THEN /\ stageFile' = EmptyStage
            /\ ap' = [ap EXCEPT ![a].pc = "gc", ![a].st = EmptyStage,
                                ![a].stageWrites = ap[a].stageWrites + 1]
            /\ UNCHANGED lockFile
       ELSE /\ ApplyReturn(a, ap[a], "io-error")
            /\ UNCHANGED stageFile
    /\ UNCHANGED <<files, snapshots, sumFile, remote, nextId, sg, stageOps, edits>>

(***************************************************************************)
(* snapStore.GC(false), then the successful return.                        *)
(***************************************************************************)
ApplyGC(a) ==
    /\ ap[a].pc = "gc"
    /\ snapshots' = GC(snapshots, stageFile)
    /\ ApplyReturn(a, ap[a], "ok")
    /\ UNCHANGED <<files, stageFile, sumFile, remote, nextId, sg, stageOps, edits>>

(***************************************************************************)
(* Initial states: a project with its ledger, nothing staged, no lock.     *)
(***************************************************************************)
\* ledgers that earlier successful applies leave behind
PublishedRow(c, n) ==
    [postID |-> PostId(n), checksum |-> ChecksumFromContent(c),
     title |-> FrontmatterTitle(c)]

\* the projects the runs start from: a fresh one; one whose two articles are
\* published and were both edited since; a fresh one whose first article has
\* a title below the minimum
InitProjects ==
    { [a |-> "c1", b |-> "c2", published |-> FALSE],
      [a |-> "c2", b |-> "c1", published |-> TRUE],
      [a |-> "c3", b |-> "c2", published |-> FALSE] }

Init ==
    /\ \E pr \in InitProjects :
          LET arts == IF pr.published
                      THEN [k \in Paths |-> IF k = "posts/a.md" THEN PublishedRow("c1", 1)
                                            ELSE PublishedRow("c2", 2)]
                      ELSE NoArticles
          IN /\ files = [k \in Paths |-> IF k = "posts/a.md" THEN pr.a ELSE pr.b]
             /\ sumFile = [pub |-> BlogPub, articles |-> arts]
             /\ remote = {arts[k].postID : k \in DOMAIN arts}
             /\ nextId = Cardinality(DOMAIN arts) + 1
    /\ snapshots = [n \in {} |-> ""]
    /\ stageFile = EmptyStage
    /\ lockFile = NoLock
    /\ ap = [a \in Appliers |-> ApIdle]
    /\ sg = SgIdle
    /\ stageOps = 0
    /\ edits = 0

Next ==
    \/ \E p \in Paths \cup {ProtectedPath, OutsidePath} : StageAddSnapshot(p)
    \/ StageAddStage
    \/ \E p \in Paths : StageRemove(p)
    \/ \E p \in Paths : Unstage(p)
    \/ StageDir
    \/ GcCmd
    \/ \E p \in Paths, c \in Contents \cup {NoFile} : EditFile(p, c)
    \/ \E a \in Appliers, yes \in BOOLEAN, dry \in BOOLEAN : ApplyStart(a, yes, dry)
    \/ \E a \in Appliers, cfgOK \in BOOLEAN, readOK \in BOOLEAN : ApplyPlan(a, cfgOK, readOK)
    \/ \E a \in Appliers, ok \in BOOLEAN : ApplyExecItem(a, ok)
    \/ \E a \in Appliers, ok \in BOOLEAN : ApplyCommit(a, ok)
    \/ \E a \in Appliers, ok \in BOOLEAN : ApplyClearStage(a, ok)
    \/ \E a \in Appliers : ApplyGC(a)

Spec == Init /\ [][Next]_vars

(***************************************************************************)
(* Properties.                                                             *)
(***************************************************************************)
\* an apply process that holds the lock and has not returned
Running(a) == ap[a].pc \in {"plan", "exec", "clear", "gc"}

\* the step in which a lock-holding run returns
Returns(a) == Running(a) /\ ap'[a].pc = "done"

\* C1: when a remote call of an apply run fails (after any number of items
\* that succeeded before it), the run returns with the ledger file exactly
\* as it was when the run started, without having written the ledger or the
\* stage, with the stage file untouched, and with the lock removed.
C1_FailedApplyChangesNothing ==
    [][\A a \in Appliers :
          (Returns(a) /\ ap'[a].result = "remote-error")
          => /\ sumFile' = ap[a].sum0
             /\ sumFile' = sumFile
             /\ stageFile' = stageFile
             /\ ap'[a].sumWrites = 0
             /\ ap'[a].stageWrites = 0
             /\ lockFile' = NoLock]_vars

\* a run whose remote call failed after an earlier item of the plan succeeded
C1_Witness ==
    \E a \in Appliers :
        /\ ap[a].pc = "done"
        /\ ap[a].result = "remote-error"
        /\ ap[a].succeeded >= 1
        /\ ap[a].calls >= 2
        /\ DOMAIN stageFile # {}

\* C2: at most one apply runs at a time, the runner being the owner of the
\* lock file; an apply started while the lock file exists returns
\* already-locked at once, without taking the lock, loading anything or
\* calling the remote, and leaves the lock file and all other files alone.
C2_LockExcludes ==
    /\ [](\A a, b \in Appliers : (Running(a) /\ Running(b)) => a = b)
    /\ [](\A a \in Appliers : Running(a) => lockFile = a)
    /\ [][\A a \in Appliers :
             (ap[a].pc = "idle" /\ ap'[a].pc # "idle" /\ lockFile # NoLock)
             => /\ ap'[a].pc = "done"
                /\ ap'[a].result = "already-locked"
                /\ ~ap'[a].held
                /\ ap'[a].calls = 0
                /\ ap'[a].st = EmptyStage
                /\ lockFile' = lockFile
                /\ UNCHANGED <<stageFile, sumFile, snapshots, remote, files>>]_vars

\* the second apply was turned away while the first is executing its plan
C2_Witness ==
    /\ ap[1].pc = "exec"
    /\ lockFile = 1
    /\ ap[2].pc = "done"
    /\ ap[2].result = "already-locked"

\* C3: a run that took the lock removes it when it returns, whatever the
\* result, and no returned run is the owner of a lock file.
C3_LockReleased ==
    /\ [][\A a \in Appliers : Returns(a) => lockFile' = NoLock]_vars
    /\ [](\A a \in Appliers : ap[a].pc = "done" => lockFile # a)

\* one run ended on a ledger write error, the next one succeeded; both had
\* the lock and the lock file is gone
C3_Witness ==
    /\ ap[1].pc = "done" /\ ap[1].held /\ ap[1].result = "io-error"
    /\ ap[1].succeeded >= 1
    /\ ap[2].pc = "done" /\ ap[2].held /\ ap[2].result = "ok"
    /\ lockFile = NoLock

\* the ledger `file` is `base` with every queued update done: a queued
\* delete's path is gone, a queued set's row is the queued one, all else is
\* as in base
LedgerReflects(file, base, queue) ==
    LET touched == {queue[i].path : i \in 1..Len(queue)}
    IN /\ file.pub = base.pub
       /\ \A i \in 1..Len(queue) :
             IF queue[i].isDelete
             THEN queue[i].path \notin DOMAIN file.articles
             ELSE /\ queue[i].path \in DOMAIN file.articles
                  /\ file.articles[queue[i].path] =
                        [postID |-> queue[i].postID, checksum |-> queue[i].checksum,
                         title |-> queue[i].title]
       /\ \A k \in (DOMAIN file.articles \cup DOMAIN base.articles) \ touched :
             /\ k \in DOMAIN file.articles
             /\ k \in DOMAIN base.articles
             /\ file.articles[k] = base.articles[k]

\* C4: a run writes the ledger file at most once, only after every plan item
\* was executed, and what it writes holds every queued update; so while a
\* run is going the file is either the ledger the run started from or that
\* ledger with all queued updates.
C4_NoPartialLedger ==
    /\ [](\A a \in Appliers :
             Running(a)
             => /\ ap[a].sumWrites <= 1
                /\ ap[a].sumWrites = 0 => sumFile = ap[a].sum0
                /\ ap[a].sumWrites = 1
                   => /\ ap[a].pc \in {"clear", "gc"}
                      /\ LedgerReflects(sumFile, ap[a].sum0, ap[a].queue))
    /\ [][sumFile' # sumFile
          => \E a \in Appliers :
                /\ ap[a].pc = "exec"
                /\ ap[a].idx > Len(ap[a].plan)
                /\ ap[a].sumWrites = 0
                /\ ap'[a].pc = "clear"]_vars

\* the ledger was written with two queued updates in it
C4_Witness ==
    \E a \in Appliers :
        /\ ap[a].pc = "clear"
        /\ ap[a].sumWrites = 1
        /\ Len(ap[a].queue) >= 2
        /\ sumFile # ap[a].sum0

\* the plan item the run is at is a delete of a published article
AtPublishedDelete(a) ==
    /\ ap[a].pc = "exec"
    /\ ap[a].idx <= Len(ap[a].plan)
    /\ ap[a].plan[ap[a].idx].type = ActionDelete
    /\ ap[a].plan[ap[a].idx].remoteID # ""

\* C5: a run without the confirmation flag that comes to a delete of a
\* published article ends with confirmation-required, and a run that ends
\* with confirmation-required has issued no remote call for any item of its
\* plan (the items before the delete included) and has written neither
\* ledger nor stage.
C5_ConfirmationBeforeAnyChange ==
    [][\A a \in Appliers :
          /\ (AtPublishedDelete(a) /\ ~ap[a].yes /\ ap'[a] # ap[a])
             => (ap'[a].pc = "done" /\ ap'[a].result = "confirmation-required")
          /\ (Returns(a) /\ ap'[a].result = "confirmation-required")
             => /\ ap'[a].calls = 0
                /\ sumFile' = ap[a].sum0
                /\ stageFile' = stageFile
                /\ ap'[a].stageWrites = 0]_vars

\* the plan item the run is at is an update whose staged checksum no longer
\* matches the file on disk
AtStaleUpdate(a) ==
    /\ ap[a].pc = "exec"
    /\ ap[a].idx <= Len(ap[a].plan)
    /\ ap[a].plan[ap[a].idx].type = ActionUpdate
    /\ ap[a].plan[ap[a].idx].path \in DOMAIN ap[a].st
    /\ ap[a].st[ap[a].plan[ap[a].idx].path].checksum
          # ChecksumFromContent(ReadFile(ap[a].plan[ap[a].idx].path))

\* C6: a run without force that comes to an update item whose file changed
\* since staging ends with stale-staging, and a run that ends with
\* stale-staging has issued no remote call and written neither ledger nor
\* stage.
C6_StaleBeforeAnyRemoteCall ==
    [][\A a \in Appliers :
          /\ (AtStaleUpdate(a) /\ ~ap[a].yes /\ ap'[a] # ap[a])
             => (ap'[a].pc = "done" /\ ap'[a].result = "stale-staging")
          /\ (Returns(a) /\ ap'[a].result = "stale-staging")
             => /\ ap'[a].calls = 0
                /\ sumFile' = ap[a].sum0
                /\ stageFile' = stageFile
                /\ ap'[a].stageWrites = 0]_vars

\* the plan of the files now on disk holds a create whose resolved title is
\* missing or shorter than the minimum
PlanHasBadTitle ==
    /\ DOMAIN stageFile # {}
    /\ \E k \in DOMAIN stageFile :
          /\ \A articles \in RegistryOrders(sumFile.articles) :
                PlanItemFor(articles, stageFile, k).type = ActionCreate
          /\ Len(ResolveTitleForPath(k, sumFile, stageFile)) < MinTitleLen

\* C7: a run that loads a stage whose plan holds a create with a missing or
\* too short title ends with invalid-input, having issued no remote call and
\* changed neither ledger nor stage.
C7_BadTitleRejectsRun ==
    [][\A a \in Appliers :
          (ap[a].pc = "plan" /\ ap'[a].pc # "plan" /\ PlanHasBadTitle
              /\ ap'[a].result \notin {"config-error", "parse-error"})
          => /\ ap'[a].pc = "done"
             /\ ap'[a].result = "invalid-input"
             /\ ap'[a].calls = 0
             /\ sumFile' = sumFile
             /\ stageFile' = stageFile]_vars

\* C9: every MODIFY item of the stage file names a snapshot that is in the
\* store, and every DELETE item has neither checksum nor snapshot.
C9_StageItemsWellFormed ==
    \A k \in DOMAIN stageFile :
        /\ stageFile[k].op = OpModify
           => (stageFile[k].snapshot # "" /\ stageFile[k].snapshot \in DOMAIN snapshots)
        /\ stageFile[k].op = OpDelete
           => (stageFile[k].checksum = "" /\ stageFile[k].snapshot = "")

\* C10: no key of the stage file is a path under the state directory.
C10_StateDirNeverStaged ==
    \A k \in DOMAIN stageFile : ~UnderStateDir(k)

(***************************************************************************)
(* `hn gc` on its own: any snapshot store with any stage file, including   *)
(* stage items whose snapshot is not in the store.                         *)
(***************************************************************************)
\* the content whose snapshot file is called n
ContentOf(n) == CHOOSE c \in Contents : SnapshotName(ChecksumFromContent(c)) = n

StageItems ==
    {DeleteItem} \cup
    {ModifyItem(ChecksumFromContent(c), SnapshotName(ChecksumFromContent(c))) : c \in Contents}

InitGC ==
    /\ \E present \in SUBSET SnapshotNames :
          snapshots = [n \in present |-> ContentOf(n)]
    /\ \E keys \in SUBSET Paths : stageFile \in [keys -> StageItems]
    /\ files = [k \in Paths |-> "c1"]
    /\ sumFile = NewSumFromBlog
    /\ remote = {}
    /\ nextId = 1
    /\ lockFile = NoLock
    /\ ap = [a \in Appliers |-> ApIdle]
    /\ sg = SgIdle
    /\ stageOps = 0
    /\ edits = 0

NextGC == GcCmd

SpecGC == InitGC /\ [][NextGC]_vars

\* C8: after a gc run every snapshot left in the store is named by a stage
\* item, and every snapshot a stage item named is still there.
C8_GcLeavesExactlyReferenced ==
    [][stageOps' = stageOps + 1
       => /\ \A n \in DOMAIN snapshots' : n \in buildReferenceSet(stageFile')
          /\ \A n \in DOMAIN snapshots :
                n \in buildReferenceSet(stageFile) => n \in DOMAIN snapshots']_vars

(***************************************************************************)
(* The snapshot store used as a library: SnapshotStore.Create next to the  *)
(* commands that write and remove snapshot files.                          *)
(***************************************************************************)
\* SnapshotStore.Create: the file is named after the digest of the content;
\* an existing file is returned as it is, otherwise the content is written
CreateOverwrites(snaps, content) ==
    [n \in DOMAIN snaps \cup {SnapshotName(ChecksumFromContent(content))} |->
        IF n = SnapshotName(ChecksumFromContent(content)) THEN content ELSE snaps[n]]

Create(snaps, content) ==
    LET filename == SnapshotName(ChecksumFromContent(content))
    IN IF filename \in DOMAIN snaps THEN snaps
       ELSE [n \in DOMAIN snaps \cup {filename} |->
                IF n = filename THEN content ELSE snaps[n]]

\* a call of Create by an idle tool process, which keeps the returned record
\* (snap.Checksum, snap.Filename)
SnapshotCreate(c) ==
    /\ stageOps < MaxStageOps
    /\ sg.pc = "idle"
    /\ stageOps' = stageOps + 1
    /\ snapshots' = Create(snapshots, c)
    /\ sg' = [SgIdle EXCEPT !.checksum = ChecksumFromContent(c),
                            !.snapshot = SnapshotName(ChecksumFromContent(c))]
    /\ UNCHANGED <<files, stageFile, sumFile, lockFile, remote, nextId, ap, edits>>

NextStore ==
    \/ \E c \in Contents : SnapshotCreate(c)
    \/ \E p \in Paths \cup {ProtectedPath} : StageAddSnapshot(p)
    \/ StageAddStage
    \/ \E p \in Paths : StageRemove(p)
    \/ StageDir
    \/ GcCmd
    \/ \E p \in Paths, c \in Contents \cup {NoFile} : EditFile(p, c)

SpecStore == Init /\ [][NextStore]_vars

\* C11: every snapshot file {d}.md of the store holds content whose digest
\* is d.
C11_SnapshotIntegrity ==
    \A n \in DOMAIN snapshots : n = SnapshotName(ChecksumFromContent(snapshots[n]))

\* the store holds a snapshot written by Create and one written by stage
\* add, after a file was edited
C11_Witness ==
    /\ Cardinality(DOMAIN snapshots) >= 2
    /\ \E k \in DOMAIN stageFile :
          /\ stageFile[k].op = OpModify
          /\ stageFile[k].snapshot \in DOMAIN snapshots
    /\ \E n \in DOMAIN snapshots : n \notin buildReferenceSet(stageFile)

(***************************************************************************)
(* A project whose published article posts/a.md was renamed to posts/b.md  *)
(* on disk, content unchanged.                                             *)
(***************************************************************************)
InitRename ==
    /\ files = [k \in Paths |-> IF k = "posts/a.md" THEN NoFile ELSE "c1"]
    /\ sumFile = [pub |-> BlogPub,
                  articles |-> [k \in {"posts/a.md"} |-> PublishedRow("c1", 1)]]
    /\ remote = {PostId(1)}
    /\ nextId = 2
    /\ snapshots = [n \in {} |-> ""]
    /\ stageFile = EmptyStage
    /\ lockFile = NoLock
    /\ ap = [a \in Appliers |-> ApIdle]
    /\ sg = SgIdle
    /\ stageOps = 0
    /\ edits = 0

SpecRename == InitRename /\ [][Next]_vars

\* ledger `sum` has old published, the file is now at new with the same
\* content, and stage st holds exactly: add new, delete old
RenameStaged(old, new, sum, st) ==
    /\ old # new
    /\ old \in DOMAIN sum.articles
    /\ sum.articles[old].postID # ""
    /\ new \notin DOMAIN sum.articles
    /\ files[old] = NoFile
    /\ files[new] # NoFile
    /\ ChecksumFromContent(files[new]) = sum.articles[old].checksum
    /\ DOMAIN st = {old, new}
    /\ st[old].op = OpDelete
    /\ st[new].op = OpModify
    /\ st[new].checksum = sum.articles[old].checksum

\* C12: with a rename staged as add-new plus delete-old, the plan of an apply
\* is the single action update(path = new, previous path = old, remote id of
\* old), and the ledger the apply writes has the key new with that remote id
\* and no key old.
C12_RenameIsOneUpdate ==
    [][\A a \in Appliers : \A old, new \in Paths :
          /\ (ap[a].pc = "plan" /\ ap'[a].pc = "exec"
                 /\ RenameStaged(old, new, sumFile, stageFile))
             => ap'[a].plan = <<PlanEntry(ActionUpdate, new, old,
                                          sumFile.articles[old].postID)>>
          /\ (ap[a].pc = "exec" /\ ap'[a].pc = "clear"
                 /\ RenameStaged(old, new, ap[a].sum0, ap[a].st))
             => /\ new \in DOMAIN sumFile'.articles
                /\ old \notin DOMAIN sumFile'.articles
                /\ sumFile'.articles[new].postID = ap[a].sum0.articles[old].postID]_vars

\* C13: when an apply has failed after some of its remote calls were
\* accepted, the plan of the next apply holds no create for a path whose post
\* the failed run already published (such an item is a skip or an update).
C13_RetryNeverRecreates ==
    [][\A a, b \in Appliers :
          (a # b /\ ap[a].pc = "done" /\ ap[a].result # "ok"
              /\ ap[b].pc = "plan" /\ ap'[b].pc = "exec")
          => \A i \in 1..Len(ap'[b].plan) :
                ap'[b].plan[i].type = ActionCreate
                => ap'[b].plan[i].path \notin ap[a].created]_vars

\* C14: when an apply returns successfully, the ledger file has, for every
\* publish or update call of the run, a row under the item's path with the
\* post id of the call (new for a publish, taken from the starting ledger
\* for an update) and the checksum of the content that was sent; it has no
\* row for a path whose post the run removed; every other row is as in the
\* ledger the run started from.
C14_LedgerMatchesRemoteWrites ==
    [][\A a \in Appliers :
          (Returns(a) /\ ap'[a].result = "ok")
          => LET sent    == ap[a].sent
                 before  == ap[a].sum0.articles
                 after   == sumFile'.articles
                 touched == {sent[i].path : i \in 1..Len(sent)}
                 oldIds  == {before[k].postID : k \in DOMAIN before}
             IN /\ \A i \in 1..Len(sent) :
                      IF sent[i].kind = "remove"
                      THEN sent[i].path \notin DOMAIN after
                      ELSE /\ sent[i].path \in DOMAIN after
                           /\ after[sent[i].path].postID = sent[i].id
                           /\ after[sent[i].path].checksum = sent[i].checksum
                           /\ sent[i].kind = "update" => sent[i].id \in oldIds
                           /\ sent[i].kind = "publish" => sent[i].id \notin oldIds
                /\ \A k \in (DOMAIN before \cup DOMAIN after) \ touched :
                      /\ k \in DOMAIN before
                      /\ k \in DOMAIN after
                      /\ after[k] = before[k]]_vars

\* a confirmed run about to return: it removed one post and updated another
\* whose file was edited again after staging
C14_Witness ==
    \E a \in Appliers :
        /\ ap[a].pc = "gc"
        /\ \E i \in 1..Len(ap[a].sent) : ap[a].sent[i].kind = "remove"
        /\ \E i \in 1..Len(ap[a].sent) :
              /\ ap[a].sent[i].kind = "update"
              /\ ap[a].sent[i].checksum # ChecksumFromContent(ReadFile(ap[a].sent[i].path))

\* C15: when an apply returns successfully, the stage file is empty and the
\* snapshot store holds no file.
C15_SuccessLeavesNothingStaged ==
    [][\A a \in Appliers :
          (Returns(a) /\ ap'[a].result = "ok")
          => /\ stageFile' = EmptyStage
             /\ DOMAIN snapshots' = {}]_vars

\* C16: when the ledger write after the last plan item fails, the run
\* returns an error with the stage file as it was (not cleared, not written),
\* the ledger file as it was, and the lock removed.
C16_LedgerWriteErrorKeepsStage ==
    [][\A a \in Appliers :
          (ap[a].pc = "exec" /\ ap[a].idx > Len(ap[a].plan) /\ ap'[a].pc = "done")
          => /\ ap'[a].result = "io-error"
             /\ stageFile' = stageFile
             /\ ap'[a].stageWrites = 0
             /\ sumFile' = sumFile
             /\ lockFile' = NoLock]_vars

\* a run whose two remote calls were accepted and whose ledger write failed:
\* both items are still staged
C16_Witness ==
    \E a \in Appliers :
        /\ ap[a].pc = "done"
        /\ ap[a].result = "io-error"
        /\ ap[a].sumWrites = 0
        /\ ap[a].succeeded = 2
        /\ DOMAIN stageFile = Paths
        /\ lockFile = NoLock

\* C17: no step of a dry-run apply calls the remote or changes the ledger
\* file, the stage file or the snapshot store; the run never starts executing
\* plan items, and when it returns the lock it took is removed.
C17_DryRunWritesNothing ==
    [][\A a \in Appliers :
          (ap'[a] # ap[a] /\ ap'[a].dry)
          => /\ UNCHANGED <<sumFile, stageFile, snapshots, remote, nextId, files>>
             /\ ap'[a].calls = 0
             /\ ap'[a].sumWrites = 0
             /\ ap'[a].stageWrites = 0
             /\ ap'[a].pc \in {"plan", "done"}
             /\ (ap'[a].pc = "done" /\ ap'[a].held) => lockFile' = NoLock]_vars

\* a dry run over a stage with items has printed its plan and returned
C17_Witness ==
    \E a \in Appliers :
        /\ ap[a].pc = "done"
        /\ ap[a].dry
        /\ ap[a].held
        /\ ap[a].result = "dry-run"
        /\ \E k \in DOMAIN stageFile : stageFile[k].snapshot \in DOMAIN snapshots
        /\ lockFile = NoLock

\* C18: a dry run that has loaded a non-empty stage ends with invalid-input
\* exactly when the plan holds a create with a missing or too short title
\* (the case in which a real run is rejected), and prints its plan otherwise;
\* started under an existing lock it ends with already-locked.
C18_DryRunValidatesLikeRealRun ==
    [][\A a \in Appliers :
          /\ (ap[a].pc = "plan" /\ ap'[a].pc # "plan" /\ ap[a].dry
                 /\ ap'[a].result \notin {"config-error", "parse-error", "nothing-to-apply"})
             => /\ (ap'[a].result = "invalid-input") <=> PlanHasBadTitle
                /\ (ap'[a].result = "dry-run") <=> ~PlanHasBadTitle
          /\ (ap[a].pc = "idle" /\ ap'[a].pc # "idle" /\ ap'[a].dry /\ lockFile # NoLock)
             => ap'[a].result = "already-locked"]_vars

\* C19: an apply that finds the stage file empty returns without any remote
\* call and without writing ledger, stage or snapshots, with its lock
\* removed; unless loading the configuration or the stage failed, what it
\* returns is nothing-to-apply.
C19_EmptyStageNothingToApply ==
    [][\A a \in Appliers :
          (ap[a].pc = "plan" /\ ap'[a].pc # "plan" /\ DOMAIN stageFile = {})
          => /\ ap'[a].pc = "done"
             /\ ap'[a].result \in {"nothing-to-apply", "config-error", "parse-error"}
             /\ ap'[a].result \notin {"config-error", "parse-error"}
                => ap'[a].result = "nothing-to-apply"
             /\ ap'[a].calls = 0
             /\ ap'[a].sumWrites = 0
             /\ ap'[a].stageWrites = 0
             /\ UNCHANGED <<sumFile, stageFile, snapshots, remote>>
             /\ lockFile' = NoLock]_vars

\* after a successful apply cleared the stage, the next apply found nothing
\* to apply
C19_Witness ==
    /\ ap[1].pc = "done" /\ ap[1].result = "ok"
    /\ ap[2].pc = "done" /\ ap[2].result = "nothing-to-apply" /\ ap[2].held
    /\ DOMAIN stageFile = {}
    /\ lockFile = NoLock

(***************************************************************************)
(* An interrupt signal during `hn apply`.  The command installs no signal  *)
(* handler and its remote calls run under context.Background(), so the Go  *)
(* runtime ends the process at once: no deferred call runs.  A remote call *)
(* in flight was either accepted before the signal (the interrupt follows  *)
(* the item step) or never counted (it precedes it).                       *)
(***************************************************************************)
Interrupt(a) ==
    /\ Running(a)
    /\ ap' = [ap EXCEPT ![a] = [ap[a] EXCEPT !.pc = "killed", !.result = "killed",
                                             !.st = EmptyStage, !.s = NewSumFromBlog,
                                             !.plan = <<>>, !.idx = 0,
                                             !.sum0 = NewSumFromBlog,
                                             !.succeeded = Len(ap[a].queue),
                                             !.queue = <<>>,
                                             !.created = PublishedPaths(ap[a].sent),
                                             !.sent = <<>>]]
    /\ UNCHANGED <<files, snapshots, stageFile, sumFile, lockFile, remote, nextId,
                   sg, stageOps, edits>>

NextInterrupt ==
    \/ \E p \in Paths : StageAddSnapshot(p)
    \/ StageAddStage
    \/ \E p \in Paths : StageRemove(p)
    \/ \E a \in Appliers, yes \in BOOLEAN, dry \in BOOLEAN : ApplyStart(a, yes, dry)
    \/ \E a \in Appliers, cfgOK \in BOOLEAN, readOK \in BOOLEAN : ApplyPlan(a, cfgOK, readOK)
    \/ \E a \in Appliers, ok \in BOOLEAN : ApplyExecItem(a, ok)
    \/ \E a \in Appliers, ok \in BOOLEAN : ApplyCommit(a, ok)
    \/ \E a \in Appliers, ok \in BOOLEAN : ApplyClearStage(a, ok)
    \/ \E a \in Appliers : ApplyGC(a)
    \/ \E a \in Appliers : Interrupt(a)

SpecInterrupt == Init /\ [][NextInterrupt]_vars

\* C20: an apply interrupted while it executes its plan ends with the result
\* cancelled, with the ledger file as it was when the run started, and with
\* the lock removed.
C20_InterruptCancelsCleanly ==
    [][\A a \in Appliers :
          (ap[a].pc = "exec" /\ ap'[a].pc \notin {"exec", "clear", "done"})
          => /\ ap'[a].result = "cancelled"
             /\ sumFile' = ap[a].sum0
             /\ lockFile' = NoLock]_vars


(***************************************************************************)
(* Projects for the diff engine.  (1) posts/a.md has a ledger row without  *)
(* a remote id (a draft) and posts/b.md is published, both files unchanged *)
(* since; (2) posts/a.md is published and posts/b.md is a copy of it;      *)
(* (3) posts/a.md and the long gone posts/old.md are both published with   *)
(* the same content, and posts/b.md is one more file with that content.    *)
(***************************************************************************)
OldPath == "posts/old.md"

DraftRow(c) ==
    [postID |-> "", checksum |-> ChecksumFromContent(c), title |-> FrontmatterTitle(c)]

DiffProjects ==
    { [files    |-> [k \in Paths |-> IF k = "posts/a.md" THEN "c1" ELSE "c2"],
       articles |-> [k \in Paths |-> IF k = "posts/a.md" THEN DraftRow("c1")
                                     ELSE PublishedRow("c2", 1)]],
      [files    |-> [k \in Paths |-> "c1"],
       articles |-> [k \in {"posts/a.md"} |-> PublishedRow("c1", 1)]],
      [files    |-> [k \in Paths |-> "c1"],
       articles |-> [k \in {OldPath, "posts/a.md"} |->
                        IF k = OldPath THEN PublishedRow("c1", 1)
                        ELSE PublishedRow("c1", 2)]] }

InitDiff ==
    /\ \E pr \in DiffProjects :
          /\ files = pr.files
          /\ sumFile = [pub |-> BlogPub, articles |-> pr.articles]
          /\ remote = {pr.articles[k].postID : k \in DOMAIN pr.articles} \ {""}
          /\ nextId = Cardinality({pr.articles[k].postID : k \in DOMAIN pr.articles} \ {""}) + 1
    /\ snapshots = [n \in {} |-> ""]
    /\ stageFile = EmptyStage
    /\ lockFile = NoLock
    /\ ap = [a \in Appliers |-> ApIdle]
    /\ sg = SgIdle
    /\ stageOps = 0
    /\ edits = 0

\* the commands of one user: staging, editing, and one `hn apply` at a time
NextDiff ==
    \/ \E p \in Paths : StageAddSnapshot(p)
    \/ StageAddStage
    \/ \E p \in Paths : StageRemove(p)
    \/ StageDir
    \/ \E p \in Paths, c \in Contents \cup {NoFile} : EditFile(p, c)
    \/ \E yes \in BOOLEAN, dry \in BOOLEAN : ApplyStart(1, yes, dry)
    \/ \E cfgOK \in BOOLEAN, readOK \in BOOLEAN : ApplyPlan(1, cfgOK, readOK)
    \/ \E ok \in BOOLEAN : ApplyExecItem(1, ok)
    \/ \E ok \in BOOLEAN : ApplyCommit(1, ok)
    \/ \E ok \in BOOLEAN : ApplyClearStage(1, ok)
    \/ ApplyGC(1)

SpecDiff == InitDiff /\ [][NextDiff]_vars

\* the slug an article's front matter asks for (input.Slug = fm.Slug)
FrontmatterSlug(c) ==
    CASE c = "c1" -> "essay"
      [] c = "c2" -> "essay"
      [] c = "c3" -> "tiny"
      [] OTHER    -> ""

\* the slug of the published post whose ledger row has checksum cs
SlugOfChecksum(cs) ==
    IF \E c \in Contents : ChecksumFromContent(c) = cs
    THEN FrontmatterSlug(CHOOSE c \in Contents : ChecksumFromContent(c) = cs)
    ELSE ""

\* C21: within one apply, when a create is sent to the remote, no delete of a
\* published article with the same slug is still waiting later in the plan
\* (deletes are executed before the creates that reuse their slug).
C21_DeletesBeforeCreates ==
    [][\A a \in Appliers :
          (/\ ap[a].pc = "exec"
           /\ ap'[a].calls = ap[a].calls + 1
           /\ ap[a].plan[ap[a].idx].type = ActionCreate)
          => ~ \E j \in (ap[a].idx + 1)..Len(ap[a].plan) :
                 LET del == ap[a].plan[j]
                     arts == ap[a].s.articles
                 IN /\ del.type = ActionDelete
                    /\ del.path \in DOMAIN arts
                    /\ arts[del.path].postID # ""
                    /\ SlugOfChecksum(arts[del.path].checksum)
                         = FrontmatterSlug(LoadContent(ap[a].st, ap[a].plan[ap[a].idx].path))]_vars


PublishedWith(arts, cs) ==
    {q \in DOMAIN arts : arts[q].postID # "" /\ arts[q].checksum = cs}

\* C24: a staged path without a ledger row is planned as an update with a
\* previous path only when that previous path is a published article of the
\* same checksum whose file is gone or which is staged for delete, and the
\* update then goes to that article's post; when every published article of
\* that checksum is still on disk and not staged for delete (a copy), the
\* path is planned as a create, and the create publishes under a post id no
\* ledger article has.
C24_RenameOnlyWhenOldPathGone ==
    [][\A a \in Appliers :
          /\ (ap[a].pc = "plan" /\ ap'[a].pc = "exec")
             => \A i \in 1..Len(ap'[a].plan) :
                   LET it   == ap'[a].plan[i]
                       arts == ap'[a].s.articles
                       k    == it.path
                       cur  == CurrentChecksum(stageFile[k], k)
                       gone == {q \in PublishedWith(arts, cur) :
                                   \/ ReadFile(q) = NoFile
                                   \/ (q \in DOMAIN stageFile /\ stageFile[q].op = OpDelete)}
                   IN (stageFile[k].op = OpModify /\ k \notin DOMAIN arts /\ cur # "")
                      => /\ it.type \in {ActionCreate, ActionUpdate}
                         /\ it.type = ActionUpdate
                               => /\ it.oldPath \in gone
                                  /\ it.remoteID = arts[it.oldPath].postID
                         /\ gone = {} => it = PlanEntry(ActionCreate, k, "", "")
          /\ (/\ ap[a].pc = "exec"
              /\ ap'[a].pc = "exec"
              /\ ap'[a] # ap[a]
              /\ ap[a].plan[ap[a].idx].path \notin DOMAIN ap[a].s.articles
              /\ ap[a].st[ap[a].plan[ap[a].idx].path].op = OpModify)
             => LET it   == ap[a].plan[ap[a].idx]
                    arts == ap[a].s.articles
                IN /\ it.type = ActionUpdate
                      => /\ ap'[a].calls = ap[a].calls + 1
                         /\ ap'[a].sent[Len(ap'[a].sent)].kind = "update"
                         /\ ap'[a].sent[Len(ap'[a].sent)].id = arts[it.oldPath].postID
                   /\ it.type = ActionCreate
                      => /\ ap'[a].calls = ap[a].calls + 1
                         /\ ap'[a].sent[Len(ap'[a].sent)].kind = "publish"
                         /\ ap'[a].sent[Len(ap'[a].sent)].id
                               \notin {arts[q].postID : q \in DOMAIN arts}]_vars

\* a run has published, as a new post, a path that is a copy of a published
\* article whose own file is still on disk and not staged for delete
C24_Witness ==
    \E a \in Appliers :
        /\ ap[a].pc = "exec"
        /\ ap[a].idx = 2
        /\ ap[a].plan[1].type = ActionCreate
        /\ Len(ap[a].sent) = 1
        /\ ap[a].sent[1].kind = "publish"
        /\ \E q \in PublishedWith(ap[a].s.articles, ap[a].st[ap[a].plan[1].path].checksum) :
              /\ q # ap[a].plan[1].path
              /\ ReadFile(q) # NoFile
              /\ q \notin DOMAIN ap[a].st


\* C25: the plan depends only on the ledger, the stage and the working tree:
\* the plan an apply computes is the plan of every other computation from the
\* same ledger, stage and files, whatever order the ledger rows were
\* collected in (same actions, same order).
C25_DiffIsPure ==
    [][\A a \in Appliers :
          (ap[a].pc = "plan" /\ ap'[a].pc = "exec")
          => \A articles \in RegistryOrders(ap'[a].s.articles) :
                ap'[a].plan = GeneratePlan(articles, stageFile)]_vars


(***************************************************************************)
(* SnapshotStore.Create on any store, including stores in which snapshot   *)
(* files were damaged after they were written (their content no longer has *)
(* the digest of their name).                                              *)
(***************************************************************************)
Stores == UNION {[D -> Contents] : D \in SUBSET SnapshotNames}

InitCreate ==
    /\ snapshots \in Stores
    /\ files = [k \in Paths |-> IF k = "posts/a.md" THEN "c1" ELSE "c2"]
    /\ sumFile = NewSumFromBlog
    /\ remote = {}
    /\ nextId = 1
    /\ stageFile = EmptyStage
    /\ lockFile = NoLock
    /\ ap = [a \in Appliers |-> ApIdle]
    /\ sg = SgIdle
    /\ stageOps = 0
    /\ edits = 0

NextCreate == \E c \in Contents : SnapshotCreate(c)

SpecCreate == InitCreate /\ [][NextCreate]_vars

\* C26: Create returns the file name made of the digest of the bytes; a call
\* that finds that file in the store writes nothing, and a call for the same
\* bytes as the call before it returns the same file name and leaves the
\* store as it is.
C26_CreateTwice ==
    [][\A c \in Contents :
          SnapshotCreate(c)
          => LET filename == SnapshotName(ChecksumFromContent(c))
             IN /\ sg'.snapshot = filename
                /\ filename \in DOMAIN snapshots'
                /\ filename \in DOMAIN snapshots => snapshots' = snapshots
                /\ (sg.snapshot # "" /\ sg.checksum = ChecksumFromContent(c))
                   => /\ sg'.snapshot = sg.snapshot
                      /\ snapshots' = snapshots]_vars

\* Create was called twice for the same bytes on a store that was empty or
\* held only that file
C26_Witness ==
    /\ stageOps = 2
    /\ sg.snapshot # ""
    /\ DOMAIN snapshots = {sg.snapshot}


(***************************************************************************)
(* SaveSum: WriteYAML(path, s), that is yaml.Marshal(s) and an atomic      *)
(* write.  The article rows sit in a Go map; the encoder visits the map    *)
(* and writes its entries sorted by key.                                   *)
(***************************************************************************)
\* the entries of a Go map in the order the runtime hands them out, which
\* depends on how the map was built: any order
MapOrders(mp) ==
    LET D == DOMAIN mp
        n == Cardinality(D)
    IN {[i \in 1..n |-> [key |-> f[i], value |-> mp[f[i]]]] :
            f \in {g \in [1..n -> D] : \A i, j \in 1..n : i # j => g[i] # g[j]}}

\* the ledger keys in byte order
SortedPaths ==
    <<SnapshotPath(SnapshotName(ChecksumFromContent("c1"))),
      SnapshotPath(SnapshotName(ChecksumFromContent("c2"))),
      SnapshotPath(SnapshotName(ChecksumFromContent("c3"))),
      "posts/a.md", "posts/b.md", OldPath>>

KeyRank(k) == CHOOSE i \in 1..Len(SortedPaths) : SortedPaths[i] = k

\* yaml.Marshal of a map value
MarshalInMapOrder(entries) == entries

Marshal(entries) == SortSeq(entries, LAMBDA x, y : KeyRank(x.key) < KeyRank(y.key))

\* the document SaveSum writes for a ledger whose article map is visited in
\* the order `entries`
SaveSum(sum, entries) ==
    [version |-> 1, blog |-> sum.pub, articles |-> Marshal(entries)]

BlogConfigs == {NoFile, "", "pub-1", "pub-2"}

\* the publication identity a blog.yml configures
ConfiguredPub(blog) == IF blog = NoFile THEN "" ELSE blog

InitValidate ==
    /\ \E pub \in {"", "pub-1", "pub-2"}, D \in SUBSET Paths, c \in {"c1", "c2"} :
          sumFile = [pub |-> pub, articles |-> [k \in D |-> PublishedRow(c, 1)]]
    /\ files = [k \in Paths |-> "c1"]
    /\ remote = {PostId(1)}
    /\ nextId = 2
    /\ snapshots = [n \in {} |-> ""]
    /\ stageFile = EmptyStage
    /\ lockFile = NoLock
    /\ ap = [a \in Appliers |-> ApIdle]
    /\ sg = SgIdle
    /\ stageOps = 0
    /\ edits = 0

\* LoadSum, then ValidateAgainstBlog; the command reports the outcome
ValidateLedger(a, blog) ==
    /\ ap[a].pc = "idle"
    /\ ap' = [ap EXCEPT ![a].pc = "done",
                        ![a].result = IF ValidateAgainst(blog, sumFile) THEN "ok"
                                      ELSE "wrong-publication"]
    /\ UNCHANGED <<files, snapshots, stageFile, sumFile, lockFile, remote, nextId,
                   sg, stageOps, edits>>

NextValidate == \E a \in Appliers, blog \in BlogConfigs : ValidateLedger(a, blog)

SpecValidate == InitValidate /\ [][NextValidate]_vars

\* C28: validating a ledger against the project's publication fails with
\* wrong-publication whenever the ledger's publication identity differs from
\* the configured one, and succeeds only when the two are the same.
C28_ValidateAgainst ==
    [][\A a \in Appliers, blog \in BlogConfigs :
          ValidateLedger(a, blog)
          => (ap'[a].result = "ok" <=> ConfiguredPub(blog) = sumFile.pub)]_vars


Validate(snaps, filename) ==
    filename = SnapshotName(ChecksumFromContent(snaps[filename]))

\* GCWithVerification(dryRun, verify): the store it leaves and the GCStats it
\* returns (RemovedSnapshots and the snapshots named in Errors, as sets)
GCWithVerificationDropsCorrupt(snaps, st, dryRun, verify) ==
    [store |-> [n \in {m \in DOMAIN snaps :
                          m \in buildReferenceSet(st) /\ Validate(snaps, m)} |-> snaps[n]],
     stats |-> [total |-> Cardinality(DOMAIN snaps),
                referenced |-> Cardinality(buildReferenceSet(st)),
                removed |-> {m \in DOMAIN snaps :
                                ~(m \in buildReferenceSet(st) /\ Validate(snaps, m))},
                errors |-> {},
                skipped |-> 0]]

GCWithVerification(snaps, st, dryRun, verify) ==
    LET all        == DOMAIN snaps
        referenced == buildReferenceSet(st)
        failed     == {n \in all : verify /\ n \in referenced /\ ~Validate(snaps, n)}
        removed    == {n \in all : n \notin referenced}
    IN [store |-> IF dryRun THEN snaps ELSE [n \in all \ removed |-> snaps[n]],
        stats |-> [total |-> Cardinality(all),
                   referenced |-> IF all = {} THEN 0 ELSE Cardinality(referenced),
                   removed |-> removed,
                   errors |-> failed,
                   skipped |-> Cardinality(failed)]]

\* gcCmd with --verify
GcVerifyCmd(dryRun) ==
    /\ stageOps < MaxStageOps
    /\ stageOps' = stageOps + 1
    /\ snapshots' = GCWithVerification(snapshots, stageFile, dryRun, TRUE).store
    /\ UNCHANGED <<files, stageFile, sumFile, lockFile, remote, nextId, ap, sg, edits>>

InitVerify ==
    /\ snapshots \in Stores
    /\ \E keys \in SUBSET Paths : stageFile \in [keys -> StageItems]
    /\ files = [k \in Paths |-> "c1"]
    /\ sumFile = NewSumFromBlog
    /\ remote = {}
    /\ nextId = 1
    /\ lockFile = NoLock
    /\ ap = [a \in Appliers |-> ApIdle]
    /\ sg = SgIdle
    /\ stageOps = 0
    /\ edits = 0

NextVerify == \E dryRun \in BOOLEAN : GcVerifyCmd(dryRun)

SpecVerify == InitVerify /\ [][NextVerify]_vars

\* the snapshots in the store that a stage item names and whose content does
\* not have the digest of their name
CorruptReachable ==
    {n \in DOMAIN snapshots :
        /\ \E k \in DOMAIN stageFile : stageFile[k].snapshot = n
        /\ ChecksumFromContent(snapshots[n]) \o ".md" # n}

\* C30: a gc run with verify leaves every reachable snapshot that fails the
\* integrity check in the store with its content untouched, names exactly
\* those snapshots in the errors of the statistics it returns (so each
\* reachable snapshot was checked), and counts them as skipped.
C30_VerifyKeepsAndListsCorrupt ==
    [][\A dryRun \in BOOLEAN :
          GcVerifyCmd(dryRun)
          => LET stats == GCWithVerification(snapshots, stageFile, dryRun, TRUE).stats
             IN /\ \A n \in CorruptReachable :
                      /\ n \in DOMAIN snapshots'
                      /\ snapshots'[n] = snapshots[n]
                /\ stats.errors = CorruptReachable
                /\ stats.skipped = Cardinality(CorruptReachable)
                /\ stats.removed \cap CorruptReachable = {}]_vars

\* gc --verify has run on a store that holds a damaged snapshot named by a
\* stage item, and that snapshot is the only file left
C30_Witness ==
    /\ stageOps >= 1
    /\ CorruptReachable # {}
    /\ DOMAIN snapshots = CorruptReachable

(***************************************************************************)
(* Automatic garbage collection after the staging commands and apply.      *)
(***************************************************************************)
\* hn unstage <file>: state.Unstage, then GCStaleSnapshots (snapStore.GC(false))
UnstageTopCmd(p) ==
    /\ sg.pc = "idle"
    /\ stageOps < MaxStageOps
    /\ stageOps' = stageOps + 1
    /\ stageFile' = IF p \in DOMAIN stageFile THEN DropItem(stageFile, p) ELSE stageFile
    /\ snapshots' = GC(snapshots, stageFile')
    /\ UNCHANGED <<files, sumFile, lockFile, remote, nextId, ap, sg, edits>>

\* one user's commands, `hn unstage` included
NextAuto ==
    \/ NextDiff
    \/ \E p \in Paths : UnstageTopCmd(p)

SpecAuto == InitDiff /\ [][NextAuto]_vars

\* the steps with which `hn stage`, `hn unstage` and `hn apply` complete
StageCommandCompletes == StageAddStage \/ StageDir
UnstageCommandCompletes == \E p \in Paths : UnstageTopCmd(p)
ApplyCommandCompletes == ApplyGC(1)

\* the snapshots in the store that no stage item references
Unreferenced(snaps, st) == DOMAIN snaps \ buildReferenceSet(st)

\* C31: when a stage, unstage or apply command completes, no snapshot that the
\* stage does not reference remains in the store (garbage collection has run).
C31_NoGarbageAfterCommand ==
    [][(StageCommandCompletes \/ UnstageCommandCompletes \/ ApplyCommandCompletes)
          => Unreferenced(snapshots', stageFile') = {}]_vars

(***************************************************************************)
(* The staleness check on its own: every file / staged item combination.   *)
(***************************************************************************)
InitStale ==
    /\ files \in [Paths -> Contents \cup {NoFile}]
    /\ \E keys \in SUBSET Paths : stageFile \in [keys -> StageItems]
    /\ snapshots = [n \in buildReferenceSet(stageFile) |-> ContentOf(n)]
    /\ sumFile = NewSumFromBlog
    /\ remote = {}
    /\ nextId = 1
    /\ lockFile = NoLock
    /\ ap = [a \in Appliers |-> ApIdle]
    /\ sg = SgIdle
    /\ stageOps = 0
    /\ edits = 0

\* the staleness check apply makes on a staged item when --yes is not given:
\* the run stops with stale-staging or goes on
StaleCheck(a, p) ==
    /\ ap[a].pc = "idle"
    /\ p \in DOMAIN stageFile
    /\ ap' = [ap EXCEPT ![a].pc = "done",
                        ![a].result = IF IsStagingItemStale(stageFile[p], p)
                                      THEN "stale-staging" ELSE "ok"]
    /\ UNCHANGED <<files, snapshots, stageFile, sumFile, lockFile, remote, nextId,
                   sg, stageOps, edits>>

NextStale == \E a \in Appliers, p \in Paths : StaleCheck(a, p)

SpecStale == InitStale /\ [][NextStale]_vars

\* C32: the staleness check answers true exactly when the file is on disk with
\* a checksum different from the staged one, or the file is missing while the
\* staged item carries a checksum.
C32_IsStale ==
    [][\A a \in Appliers, p \in Paths :
          StaleCheck(a, p)
          => (ap'[a].result = "stale-staging"
              <=> \/ /\ files[p] # NoFile
                     /\ ChecksumFromContent(files[p]) # stageFile[p].checksum
                  \/ /\ files[p] = NoFile
                     /\ stageFile[p].checksum # "")]_vars

\* a check reported stale for a staged modify whose file is gone
C32_Witness ==
    /\ \E a \in Appliers : ap[a].pc = "done" /\ ap[a].result = "stale-staging"
    /\ \A a \in Appliers : ap[a].pc = "done" => ap[a].result = "stale-staging"
    /\ DOMAIN stageFile = {"posts/a.md"}
    /\ stageFile["posts/a.md"].checksum # ""
    /\ files["posts/a.md"] = NoFile

(***************************************************************************)
(* Title resolution on its own: ledger rows with and without a cached      *)
(* title, staged items with and without their snapshot file, files on disk *)
(* or not.                                                                 *)
(***************************************************************************)
CachedTitle == "Cached Title"

\* a ledger row with the given cached title ("" for a row written before
\* titles were cached)
RowWithTitle(t) == [postID |-> PostId(1), checksum |-> ChecksumFromContent("c1"), title |-> t]

InitTitle ==
    /\ files \in [Paths -> {"c1", "c3", NoFile}]
    /\ \E keys \in SUBSET Paths : stageFile \in [keys -> StageItems]
    /\ \E present \in SUBSET buildReferenceSet(stageFile) :
          snapshots = [n \in present |-> ContentOf(n)]
    /\ \E D \in SUBSET Paths :
          \E rows \in [D -> {RowWithTitle(""), RowWithTitle(CachedTitle)}] :
             sumFile = [pub |-> BlogPub, articles |-> rows]
    /\ remote = {PostId(1)}
    /\ nextId = 2
    /\ lockFile = NoLock
    /\ ap = [a \in Appliers |-> ApIdle]
    /\ sg = SgIdle
    /\ stageOps = 0
    /\ edits = 0

\* a command resolves the title of a path against the ledger and the stage
ResolveTitle(a, p) ==
    /\ ap[a].pc = "idle"
    /\ ap' = [ap EXCEPT ![a].pc = "done",
                        ![a].result = ResolveTitleForPath(p, sumFile, stageFile)]
    /\ UNCHANGED <<files, snapshots, stageFile, sumFile, lockFile, remote, nextId,
                   sg, stageOps, edits>>

NextTitle == \E p \in Paths : ResolveTitle(1, p)

SpecTitle == InitTitle /\ [][NextTitle]_vars

\* C33: the resolved title is the ledger-cached title when that is non-empty;
\* otherwise the front-matter title of the staged snapshot when the item has a
\* snapshot that yields one; otherwise the front-matter title of the file on
\* disk (empty when there is no file).
C33_TitleResolutionOrder ==
    [][\A p \in Paths :
          ResolveTitle(1, p)
          => LET cached == IF p \in DOMAIN sumFile.articles
                           THEN sumFile.articles[p].title ELSE ""
                 staged == IF /\ p \in DOMAIN stageFile
                              /\ stageFile[p].snapshot \in DOMAIN snapshots
                           THEN FrontmatterTitle(snapshots[stageFile[p].snapshot])
                           ELSE ""
                 onDisk == IF files[p] = NoFile THEN "" ELSE FrontmatterTitle(files[p])
             IN ap'[1].result = IF cached # "" THEN cached
                                ELSE IF staged # "" THEN staged
                                ELSE onDisk]_vars

\* the cached title was returned although the staged snapshot and the file
\* on disk both carry other titles
C33_Witness ==
    /\ ap[1].pc = "done"
    /\ ap[1].result = CachedTitle
    /\ "posts/a.md" \in DOMAIN sumFile.articles
    /\ "posts/b.md" \notin DOMAIN sumFile.articles
    /\ "posts/a.md" \in DOMAIN stageFile
    /\ stageFile["posts/a.md"].snapshot \in DOMAIN snapshots
    /\ FrontmatterTitle(snapshots[stageFile["posts/a.md"].snapshot]) = "Revised Essay"
    /\ files["posts/a.md"] = "c3"

\* process a holds the project lock and makes the step
LockHolderSteps(a) ==
    /\ lockFile = a
    /\ ap[a].held
    /\ ap'[a] # ap[a]

\* C34: every step that writes the stage file is made by a process that
\* holds the project lock when it writes.
C34_StageWrittenUnderLock ==
    [][stageFile' # stageFile => \E a \in Appliers : LockHolderSteps(a)]_vars

(***************************************************************************)
(* AtomicWriteFile under concurrency: two processes create snapshots.  In  *)
(* this specification `snapshots` is the snapshot directory, temp files    *)
(* included, and ap[w] is the position of process w inside                 *)
(* SnapshotStore.Create.  An open descriptor stays on its file when the    *)
(* file is renamed; fd is the name that file has now ("" once closed or    *)
(* unlinked).                                                              *)
(***************************************************************************)
Writers == {1, 2}

\* filepath.Join(dir, ".tmp-"+filepath.Base(path))
TmpPath(name) == ".tmp-" \o name

\* a file that os.WriteFile has opened with O_TRUNC and not yet written
Truncated == ""

WrIdle == [pc |-> "idle", data |-> "", fd |-> "", result |-> ""]

InitAtomic ==
    /\ snapshots = [n \in {} |-> ""]
    /\ ap = [w \in Writers |-> WrIdle]
    /\ files = [k \in Paths |-> "c1"]
    /\ stageFile = EmptyStage
    /\ sumFile = NewSumFromBlog
    /\ remote = {}
    /\ nextId = 1
    /\ lockFile = NoLock
    /\ sg = SgIdle
    /\ stageOps = 0
    /\ edits = 0

\* Create: checksum, file name, os.Stat on the target (return when it exists)
CreateStat(w, c) ==
    /\ ap[w].pc = "idle"
    /\ IF SnapshotName(ChecksumFromContent(c)) \in DOMAIN snapshots
       THEN ap' = [ap EXCEPT ![w] = [pc |-> "done", data |-> c, fd |-> "", result |-> "ok"]]
       ELSE ap' = [ap EXCEPT ![w] = [pc |-> "open", data |-> c, fd |-> "", result |-> ""]]
    /\ UNCHANGED <<files, snapshots, stageFile, sumFile, lockFile, remote, nextId,
                   sg, stageOps, edits>>

\* AtomicWriteFile, os.WriteFile(tmpPath): open with O_CREATE|O_TRUNC
WriteFileOpen(w) ==
    /\ ap[w].pc = "open"
    /\ LET tmp == TmpPath(SnapshotName(ChecksumFromContent(ap[w].data)))
       IN /\ snapshots' = [n \in DOMAIN snapshots \cup {tmp} |->
                              IF n = tmp THEN Truncated ELSE snapshots[n]]
          /\ ap' = [ap EXCEPT ![w].pc = "write", ![w].fd = tmp]
    /\ UNCHANGED <<files, stageFile, sumFile, lockFile, remote, nextId,
                   sg, stageOps, edits>>

\* os.WriteFile: write the data through the descriptor, close
WriteFileWrite(w) ==
    /\ ap[w].pc = "write"
    /\ snapshots' = IF ap[w].fd \in DOMAIN snapshots
                    THEN [snapshots EXCEPT ![ap[w].fd] = ap[w].data]
                    ELSE snapshots
    /\ ap' = [ap EXCEPT ![w].pc = "rename", ![w].fd = ""]
    /\ UNCHANGED <<files, stageFile, sumFile, lockFile, remote, nextId,
                   sg, stageOps, edits>>

\* the descriptor of process v after tmp was renamed onto target
FdAfterRename(v, tmp, target) ==
    IF ap[v].fd = tmp THEN target
    ELSE IF ap[v].fd = target THEN ""
    ELSE ap[v].fd

\* os.Rename(tmpPath, path): fails when the temp file is gone
Rename(w) ==
    /\ ap[w].pc = "rename"
    /\ LET target == SnapshotName(ChecksumFromContent(ap[w].data))
           tmp    == TmpPath(target)
       IN IF tmp \in DOMAIN snapshots
          THEN /\ snapshots' = [n \in (DOMAIN snapshots \ {tmp}) \cup {target} |->
                                   IF n = target THEN snapshots[tmp] ELSE snapshots[n]]
               /\ ap' = [v \in Writers |->
                           IF v = w THEN [ap[w] EXCEPT !.pc = "done", !.result = "ok"]
                           ELSE [ap[v] EXCEPT !.fd = FdAfterRename(v, tmp, target)]]
          ELSE /\ ap' = [ap EXCEPT ![w].pc = "done", ![w].result = "io-error"]
               /\ UNCHANGED snapshots
    /\ UNCHANGED <<files, stageFile, sumFile, lockFile, remote, nextId,
                   sg, stageOps, edits>>

NextAtomic ==
    \/ \E w \in Writers, c \in Contents : CreateStat(w, c)
    \/ \E w \in Writers : WriteFileOpen(w)
    \/ \E w \in Writers : WriteFileWrite(w)
    \/ \E w \in Writers : Rename(w)

SpecAtomic == InitAtomic /\ [][NextAtomic]_vars

\* C35: a reader of a snapshot file sees no file or complete content, never a
\* partial file, also while two creates of the same digest race; and when
\* both creates have finished, the snapshot holds the bytes its name says.
C35_ReadersSeeCompleteFiles ==
    /\ \A n \in DOMAIN snapshots \cap SnapshotNames : snapshots[n] = ContentOf(n)
    /\ (\A w \in Writers : ap[w].pc = "done")
          => \A w \in Writers :
                LET target == SnapshotName(ChecksumFromContent(ap[w].data))
                IN target \in DOMAIN snapshots /\ snapshots[target] = ap[w].data

\* apply a writes the cleared stage
ClearsStage(a) ==
    /\ ap[a].pc = "clear"
    /\ ap'[a].pc = "gc"

\* C36: no staged intent is lost through interleaving: every item that
\* apply's clear wipes from the stage file is an item that apply loaded and
\* planned, and when a stage add writes its item the snapshot it saved is
\* still in the store.
C36_NoStagedIntentLost ==
    [][/\ \A a \in Appliers :
             ClearsStage(a)
             => \A p \in DOMAIN stageFile :
                   p \in DOMAIN ap[a].st /\ ap[a].st[p] = stageFile[p]
       /\ StageAddStage => sg.snapshot \in DOMAIN snapshots']_vars

\* C37: while a confirmed apply executes a plan made from a rename staged as
\* add-new-path plus delete-old-path, no step removes the remote post of the
\* renamed article: the post exists after every step of the apply.
C37_RenameNeverRemovesPost ==
    [][\A a \in Appliers : \A old, new \in Paths :
          (/\ ap[a].pc = "exec"
           /\ ap[a].yes
           /\ ap'[a] # ap[a]
           /\ RenameStaged(old, new, ap[a].sum0, ap[a].st)
           /\ ap[a].sum0.articles[old].postID \in remote)
          => ap[a].sum0.articles[old].postID \in remote']_vars

(***************************************************************************)
(* A project whose ledger file belongs to another publication: LoadSum     *)
(* succeeds and ValidateAgainstBlog fails.                                 *)
(***************************************************************************)
OtherPub == "pub-2"

InitForeign ==
    /\ files = [k \in Paths |-> "c1"]
    /\ \E D \in (SUBSET Paths) \ {{}} :
          /\ sumFile = [pub |-> OtherPub,
                        articles |-> [k \in D |-> PublishedRow("c1", KeyRank(k))]]
          /\ remote = {PostId(KeyRank(k)) : k \in D}
    /\ nextId = 3
    /\ snapshots = [n \in {} |-> ""]
    /\ stageFile = EmptyStage
    /\ lockFile = NoLock
    /\ ap = [a \in Appliers |-> ApIdle]
    /\ sg = SgIdle
    /\ stageOps = 0
    /\ edits = 0

SpecForeign == InitForeign /\ [][NextDiff]_vars

\* C38: while the ledger file fails publication validation, no step of an
\* apply changes the remote or overwrites the ledger file.
C38_InvalidLedgerStopsApply ==
    [][~ValidateAgainstBlog(sumFile) => (remote' = remote /\ sumFile' = sumFile)]_vars

\* C39: no two rows of the ledger's article table hold the same non-empty
\* remote post id.
C39_RemoteIdsUnique ==
    \A p, q \in DOMAIN sumFile.articles :
       (p # q /\ sumFile.articles[p].postID # "")
       => sumFile.articles[p].postID # sumFile.articles[q].postID

\* apply a sends the update of its current plan item and the remote accepts
SendsUpdate(a) ==
    /\ ap[a].pc = "exec"
    /\ ap[a].idx <= Len(ap[a].plan)
    /\ ap[a].plan[ap[a].idx].type = ActionUpdate
    /\ ap'[a].calls = ap[a].calls + 1
    /\ Len(ap'[a].queue) = Len(ap[a].queue) + 1

\* the front-matter title of the snapshot staged for path p in stage st
StagedTitle(st, p) ==
    IF p \in DOMAIN st /\ st[p].snapshot # ""
    THEN ParseTitleFromFrontmatter(SnapshotGet(st[p].snapshot))
    ELSE ""

\* C40: when an update is sent for an article whose staged front-matter title
\* differs from the title cached in the ledger, the title of the update (the
\* one sent to the remote and queued for the ledger row) is the staged
\* front-matter title.
C40_UpdateRefreshesTitle ==
    [][\A a \in Appliers :
          LET np == ap[a].plan[ap[a].idx].path
          IN (/\ SendsUpdate(a)
              /\ np \in DOMAIN ap[a].s.articles
              /\ StagedTitle(ap[a].st, np) # ""
              /\ StagedTitle(ap[a].st, np) # ap[a].s.articles[np].title)
             => ap'[a].queue[Len(ap'[a].queue)].title = StagedTitle(ap[a].st, np)]_vars

====
